---- MODULE Spec2Model ----
(***************************************************************************)
(* Model of utilities/split.py: split_file cuts a file into numbered part  *)
(* files, combine_file discovers the part files of a base name by a        *)
(* regular expression, sorts them and concatenates them into the base      *)
(* file.  The state is the one directory both operations work in, plus a   *)
(* record of the last process run (its arguments, its exit status and the  *)
(* files it created or read, in order).                                    *)
(***************************************************************************)
EXTENDS Integers, Sequences, FiniteSets, TLC

\* ---------------------------------------------------------------- bounds
\* Longest source file in the directory before the first run.
MaxLen == 3

\* Largest --parts value.
MaxParts == 3

\* Largest --max-size value, in bytes.
MaxSize == 2

\* Longest output combine_file is run for: keeps the files, which grow when
\* stale parts are combined and the result is split again, bounded.
MaxOut == MaxLen + 1

\* ------------------------------------------------------------ file names
\* A file name is <stem> or <stem>.part<suf>; suf is a sequence of
\* characters.  "nl" is the newline character, "u3" is U+0663
\* (ARABIC-INDIC DIGIT THREE), "x" a letter.
\* An optional integer argument: None, or Some(n).
None == <<>>

Some(n) == <<n>>

Val(v) == v[1]

AsciiDigits == <<"0", "1", "2", "3", "4", "5", "6", "7", "8", "9">>

AsciiDigitSet == {AsciiDigits[i] : i \in 1..10}

\* What \d matches in a str pattern: every Unicode decimal digit.
ReDigit(c) == c \in AsciiDigitSet \cup {"u3"}

\* The value int() gives a decimal digit character.
DigitVal(c) == IF c = "u3" THEN 3 ELSE (CHOOSE i \in 1..10 : AsciiDigits[i] = c) - 1

\* Code point of a character, the key of Python's string comparison.
CharCode(c) ==
    IF c = "nl" THEN 10
    ELSE IF c = "x" THEN 120
    ELSE IF c = "u3" THEN 1635
    ELSE 48 + DigitVal(c)

BaseName(stem) == [stem |-> stem, part |-> FALSE, suf |-> <<>>]

PartName(stem, suf) == [stem |-> stem, part |-> TRUE, suf |-> suf]

\* str(n) for n >= 0: decimal, no padding.
RECURSIVE Str(_)
Str(n) ==
    IF n < 10 THEN <<AsciiDigits[n + 1]>>
    ELSE Str(n \div 10) \o <<AsciiDigits[(n % 10) + 1]>>

\* f"{filename}.part{i+1}"
PartFilename(filename, i) == PartName(filename, Str(i + 1))

\* int(s) for a string of decimal digits.
RECURSIVE ParseInt(_)
ParseInt(s) ==
    IF Len(s) = 0 THEN 0
    ELSE ParseInt(SubSeq(s, 1, Len(s) - 1)) * 10 + DigitVal(s[Len(s)])

\* Length of the text group 1 captures when
\* ^<base>\.part(\d+)$ matches the name, 0 when it does not match.
\* $ matches at the end of the string and before a final newline.
GroupLen(base, f) ==
    IF f.stem # base \/ ~f.part THEN 0
    ELSE LET n == Len(f.suf)
             k == IF n > 0 /\ f.suf[n] = "nl" THEN n - 1 ELSE n
         IN IF k >= 1 /\ \A j \in 1..k : ReDigit(f.suf[j]) THEN k ELSE 0

PatternMatch(base, f) == GroupLen(base, f) > 0

Group1(base, f) == SubSeq(f.suf, 1, GroupLen(base, f))

\* s < t for two strings, by code point.
RECURSIVE StrLess(_, _)
StrLess(s, t) ==
    IF Len(t) = 0 THEN FALSE
    ELSE IF Len(s) = 0 THEN TRUE
    ELSE IF CharCode(s[1]) # CharCode(t[1]) THEN CharCode(s[1]) < CharCode(t[1])
    ELSE StrLess(Tail(s), Tail(t))

\* Tuples compared by the file name alone.
TupleLessByName(a, b) == StrLess(a[2].suf, b[2].suf)

\* (idx, f) tuples compare by idx, then by the file name.
TupleLess(a, b) ==
    \/ a[1] < b[1]
    \/ a[1] = b[1] /\ StrLess(a[2].suf, b[2].suf)

\* matches.sort()
RECURSIVE SortMatches(_)
SortMatches(S) ==
    IF S = {} THEN <<>>
    ELSE LET m == CHOOSE a \in S : \A b \in S \ {a} : TupleLess(a, b)
         IN <<m>> \o SortMatches(S \ {m})

\* ------------------------------------------------------------ arithmetic
\* math.ceil(a / b) for b # 0 (exact for file sizes below 2^53).
Ceil(a, b) ==
    IF b > 0 THEN -((-a) \div b) ELSE -(a \div (-b))

Min(a, b) == IF a < b THEN a ELSE b

\* Python truthiness of an optional integer argument.
Truthy(v) == v # None /\ Val(v) # 0

\* ----------------------------------------------------------------- state
VARIABLES fs, lastOp

vars == <<fs, lastOp>>

Target == "B"

\* fs with file name f created or truncated and rewritten to data.
WriteFile(dir, f, data) ==
    [g \in DOMAIN dir \cup {f} |-> IF g = f THEN data ELSE dir[g]]

\* f.read() without a size: everything from pos to the end.
ReadChunkAll(data, pos, n) == SubSeq(data, pos + 1, Len(data))

\* f.read(n) at position pos of data, n >= 0.
ReadChunk(data, pos, n) == SubSeq(data, pos + 1, Min(pos + n, Len(data)))

\* The loop of split_file from iteration i on: dir is the directory so
\* far, pos the read cursor of the source.
RECURSIVE SplitLoop(_, _, _, _, _, _, _)
SplitLoop(dir, filename, data, pos, i, parts, part_size) ==
    IF i >= parts THEN dir
    ELSE LET chunk == ReadChunk(data, pos, part_size)
         IN SplitLoop(WriteFile(dir, PartFilename(filename, i), chunk),
                      filename, data, pos + Len(chunk), i + 1, parts, part_size)

\* part_size with floor division in place of ceil.
PartSizeFloor(filesize, max_size, parts) ==
    IF Truthy(parts) THEN filesize \div Val(parts) ELSE Val(max_size)

\* parts as filesize // part_size + 1 in place of ceil.
PartCountPlusOne(filesize, max_size, parts) ==
    IF Truthy(parts) THEN Val(parts) ELSE (filesize \div Val(max_size)) + 1

\* part_size and parts as split_file computes them (lines 22-26).
PartSize(filesize, max_size, parts) ==
    IF Truthy(parts) THEN Ceil(filesize, Val(parts)) ELSE Val(max_size)

PartCount(filesize, max_size, parts) ==
    IF Truthy(parts) THEN Val(parts) ELSE Ceil(filesize, Val(max_size))

\* range(parts), shifted to the 1-based indices of the names.
CreatedNames(filename, parts) ==
    [i \in 1..(IF parts > 0 THEN parts ELSE 0) |-> PartFilename(filename, i - 1)]

OpRecord(op, filename, max_size, parts, status, created, order) ==
    [op |-> op, filename |-> filename, max_size |-> max_size, parts |-> parts,
     status |-> status, created |-> created, order |-> order]

\* os.path.exists(filename)
Exists(dir, filename) == BaseName(filename) \in DOMAIN dir

\* Whether one of the branches "if parts" / "elif max_size" is taken.
HasStrategyPartsOnly(max_size, parts) == Truthy(parts)

HasStrategy(max_size, parts) == Truthy(parts) \/ Truthy(max_size)

\* A run that ends in sys.exit(1) before it touched the directory.
Fail(op, filename, max_size, parts) ==
    /\ fs' = fs
    /\ lastOp' = OpRecord(op, filename, max_size, parts, 1, <<>>, <<>>)

\* Lines 19-39, for a source that holds data.
SplitData(filename, data, max_size, parts) ==
    IF ~HasStrategy(max_size, parts)
    THEN Fail("split", filename, max_size, parts)
    ELSE LET filesize == Len(data)
             part_size == PartSize(filesize, max_size, parts)
             n == PartCount(filesize, max_size, parts)
         IN /\ fs' = SplitLoop(fs, filename, data, 0, 0, n, part_size)
            /\ lastOp' = OpRecord("split", filename, max_size, parts, 0,
                                  CreatedNames(filename, n), <<>>)

\* split_file without the test of line 15: a missing source reads as empty.
split_file_unchecked(filename, max_size, parts) ==
    SplitData(filename,
              IF Exists(fs, filename) THEN fs[BaseName(filename)] ELSE <<>>,
              max_size, parts)

split_file(filename, max_size, parts) ==
    IF ~Exists(fs, filename)
    THEN Fail("split", filename, max_size, parts)
    ELSE SplitData(filename, fs[BaseName(filename)], max_size, parts)

\* The (idx, f) pairs combine_file collects from the directory listing.
Matches(dir, base) ==
    {<<ParseInt(Group1(base, f)), f>> : f \in {g \in DOMAIN dir : PatternMatch(base, g)}}

\* The output after appending the parts in the given order.
RECURSIVE Concat(_, _)
Concat(dir, order) ==
    IF Len(order) = 0 THEN <<>>
    ELSE dir[order[1][2]] \o Concat(dir, Tail(order))

\* The output opened on the first part's path.
OutputFilenameFirstPart(base) == PartFilename(base, 0)

OutputFilename(base) == BaseName(base)

combine_file(base) ==
    LET matches == SortMatches(Matches(fs, base))
    IN IF Len(matches) = 0
       THEN Fail("combine", base, None, None)
       ELSE /\ Len(Concat(fs, matches)) <= MaxOut
            /\ fs' = WriteFile(fs, OutputFilename(base), Concat(fs, matches))
            /\ lastOp' = OpRecord("combine", base, None, None, 0, <<>>, matches)

\* ------------------------------------------------------------------ Init
\* Source contents: position-numbered bytes, so that any reordering, loss
\* or duplication of bytes shows.
Content(len) == [i \in 1..len |-> i]

\* Directories the first run may find: the entries besides the source, each
\* with its own one-byte contents.
P9 == <<PartName("B", <<"9">>), <<19>>>>

P10 == <<PartName("B", <<"1", "0">>), <<20>>>>

P01 == <<PartName("B", <<"0", "1">>), <<21>>>>

P1nl == <<PartName("B", <<"1", "nl">>), <<22>>>>

Pu3 == <<PartName("B", <<"u3">>), <<23>>>>

Px == <<PartName("B", <<"x">>), <<24>>>>

Pempty == <<PartName("B", <<>>), <<25>>>>

PC1 == <<PartName("C", <<"1">>), <<26>>>>

PreDirs == {{}, {P9, P10}, {P10}, {P01}, {P1nl}, {Pu3}, {Px, Pempty, PC1}}

NoOp == OpRecord("none", "", None, None, 0, <<>>, <<>>)

Init ==
    /\ \E present \in BOOLEAN, len \in 0..MaxLen, pre \in PreDirs :
         /\ present \/ len = 0
         /\ fs = [f \in {p[1] : p \in pre} \cup (IF present THEN {BaseName(Target)} ELSE {}) |->
                    IF f = BaseName(Target) THEN Content(len)
                    ELSE (CHOOSE p \in pre : p[1] = f)[2]]
    /\ lastOp = NoOp

\* ---------------------------------------------------------------- __main__
PartsArgs == {None} \cup {Some(n) : n \in 0..MaxParts}

SizeArgs == {None} \cup {Some(n) : n \in 0..MaxSize}

MainSplit ==
    \E max_size \in SizeArgs, parts \in PartsArgs : split_file(Target, max_size, parts)

MainCombine == combine_file(Target)

Next == MainSplit \/ MainCombine

Spec == Init /\ [][Next]_vars

\* ---------------------------------------------------------------- claims
Src == BaseName(Target)

SplitOk(o) == o.op = "split" /\ o.status = 0

CombineOk(o) == o.op = "combine" /\ o.status = 0

\* parts=n with n >= 1.
ByParts(o) == o.parts # None /\ Val(o.parts) >= 1

\* max_size=s with s >= 1, and no parts.
BySize(o) == o.parts = None /\ o.max_size # None /\ Val(o.max_size) >= 1

\* Exactly one valid strategy supplied.
OneStrategy(o) == \/ ByParts(o) /\ o.max_size = None
                  \/ BySize(o)

\* ceil(a / b) for a >= 0, b >= 1, stated without division.
CeilOf(a, b) == CHOOSE k \in 0..a : k * b >= a /\ (k = 0 \/ (k - 1) * b < a)

Max(a, b) == IF a > b THEN a ELSE b

\* Size of the i-th file the last split created.
SizeOf(i) == Len(fs[lastOp.created[i]])

RECURSIVE SumSizes(_)
SumSizes(n) == IF n = 0 THEN 0 ELSE SumSizes(n - 1) + SizeOf(n)

\* The created files are <Target>.part1 .. <Target>.part<n>, all on disk.
Named1ToN(n) ==
    /\ Len(lastOp.created) = n
    /\ \A i \in 1..n :
         /\ lastOp.created[i] \in DOMAIN fs
         /\ lastOp.created[i].stem = Target /\ lastOp.created[i].part
         /\ \A c \in {lastOp.created[i].suf[j] : j \in 1..Len(lastOp.created[i].suf)} :
              c \in AsciiDigitSet
         /\ lastOp.created[i].suf[1] # "0"
         /\ ParseInt(lastOp.created[i].suf) = i

\* <basename>.part<digits> as the specification words it: ASCII digits up to
\* the end of the name.
IsPartOf(base, f) ==
    /\ f.stem = base /\ f.part /\ Len(f.suf) >= 1
    /\ \A j \in 1..Len(f.suf) : f.suf[j] \in AsciiDigitSet

PartsOf(dir, base) == {f \in DOMAIN dir : IsPartOf(base, f)}

\* The contents of the files in S, concatenated in ascending index order.
RECURSIVE ConcatAscending(_, _)
ConcatAscending(dir, S) ==
    IF S = {} THEN <<>>
    ELSE LET f == CHOOSE g \in S : \A h \in S : ParseInt(g.suf) <= ParseInt(h.suf)
         IN dir[f] \o ConcatAscending(dir, S \ {f})

\* C1: split_file on F (any length, one valid strategy) followed by
\* combine_file on F's name ends with the base file holding F's contents
\* (stated for a directory whose only part files are the ones the split created).
C1_RoundTrip ==
    [][(/\ SplitOk(lastOp) /\ OneStrategy(lastOp)
        /\ {f \in DOMAIN fs : PatternMatch(Target, f)} =
             {lastOp.created[i] : i \in 1..Len(lastOp.created)}
        /\ lastOp'.op = "combine")
       => (lastOp'.status = 0 /\ Src \in DOMAIN fs' /\ fs'[Src] = fs[Src])]_vars

\* C2: split_file keeps the invariant "the part files of the source,
\* concatenated in ascending index order, equal the source": if it holds
\* before a successful split of the unchanged source, it holds after it.
C2_PartsReproduceSource ==
    [][(/\ Src \in DOMAIN fs
        /\ ConcatAscending(fs, PartsOf(fs, Target)) = fs[Src]
        /\ SplitOk(lastOp'))
       => ConcatAscending(fs', PartsOf(fs', Target)) = fs'[Src]]_vars

\* C3 as stated: parts=n creates exactly n files .part1 .. .partn whose sizes
\* sum to L, and every part except possibly the last has size ceil(L/n).
C3_AllButLastFull ==
    (SplitOk(lastOp) /\ ByParts(lastOp)) =>
        LET n == Val(lastOp.parts)
            L == Len(fs[Src])
        IN /\ Named1ToN(n)
           /\ SumSizes(n) = L
           /\ \A i \in 1..(n - 1) : SizeOf(i) = CeilOf(L, n)

\* C3 amended: parts=n creates exactly n files .part1 .. .partn whose sizes
\* sum to L; no part is larger than ceil(L/n), and every part that is
\* followed by a non-empty part has size exactly ceil(L/n).
C3_PartCount ==
    (SplitOk(lastOp) /\ ByParts(lastOp)) =>
        LET n == Val(lastOp.parts)
            L == Len(fs[Src])
        IN /\ Named1ToN(n)
           /\ SumSizes(n) = L
           /\ \A i \in 1..n : SizeOf(i) <= CeilOf(L, n)
           /\ \A i \in 1..n :
                (\E j \in (i + 1)..n : SizeOf(j) > 0) => SizeOf(i) = CeilOf(L, n)

\* A 1-byte file split into 3 parts: one full part, then two empty ones.
C3_Witness ==
    /\ SplitOk(lastOp) /\ ByParts(lastOp)
    /\ Val(lastOp.parts) = 3 /\ Len(fs[Src]) = 1
    /\ SizeOf(1) = 1 /\ SizeOf(2) = 0 /\ SizeOf(3) = 0

\* C4: max_size=s (no parts) creates exactly ceil(L/s) part files, each of
\* at most s bytes, whose sizes sum to L.
C4_MaxSize ==
    (SplitOk(lastOp) /\ BySize(lastOp)) =>
        LET s == Val(lastOp.max_size)
            L == Len(fs[Src])
        IN /\ Named1ToN(CeilOf(L, s))
           /\ \A i \in 1..Len(lastOp.created) : SizeOf(i) <= s
           /\ SumSizes(Len(lastOp.created)) = L

\* A split by max size 2 of a 3-byte file: a full part and a short last one.
C4_Witness ==
    /\ SplitOk(lastOp) /\ BySize(lastOp)
    /\ Val(lastOp.max_size) = 2 /\ Len(fs[Src]) = 3
    /\ Len(lastOp.created) = 2 /\ SizeOf(1) = 2 /\ SizeOf(2) = 1

\* The part count and part size of the last split, from its arguments.
PartsOfSplit == IF ByParts(lastOp) THEN Val(lastOp.parts)
                ELSE CeilOf(Len(fs[Src]), Val(lastOp.max_size))

SizeOfSplit == IF ByParts(lastOp) THEN CeilOf(Len(fs[Src]), Val(lastOp.parts))
               ELSE Val(lastOp.max_size)

\* C5 as stated: the final part's length is filesize - (parts-1)*part_size,
\* is never larger than another part's, and is zero only for an empty file.
C5_FinalPartFormula ==
    (SplitOk(lastOp) /\ (ByParts(lastOp) \/ BySize(lastOp)) /\ Len(lastOp.created) >= 1) =>
        LET n == Len(lastOp.created)
            L == Len(fs[Src])
        IN /\ n = PartsOfSplit
           /\ SizeOf(n) = L - (n - 1) * SizeOfSplit
           /\ \A i \in 1..n : SizeOf(n) <= SizeOf(i)
           /\ SizeOf(n) = 0 => L = 0

\* C5 amended: the final part's length is max(0, filesize - (parts-1)*part_size)
\* and is never larger than another part's; it is zero only for an empty
\* file or, in a split by part count, when (parts-1)*part_size >= filesize.
C5_FinalPart ==
    (SplitOk(lastOp) /\ (ByParts(lastOp) \/ BySize(lastOp)) /\ Len(lastOp.created) >= 1) =>
        LET n == Len(lastOp.created)
            L == Len(fs[Src])
        IN /\ n = PartsOfSplit
           /\ SizeOf(n) = Max(0, L - (n - 1) * SizeOfSplit)
           /\ \A i \in 1..n : SizeOf(n) <= SizeOf(i)
           /\ SizeOf(n) = 0 =>
                (L = 0 \/ (ByParts(lastOp) /\ (n - 1) * SizeOfSplit >= L))

\* A 2-byte file split into 3 parts: the final part is empty, the file is not.
C5_Witness ==
    /\ SplitOk(lastOp) /\ ByParts(lastOp) /\ lastOp.max_size = None
    /\ Len(lastOp.created) = 3 /\ Len(fs[Src]) = 2
    /\ SizeOf(3) = 0 /\ SizeOf(2) = 1

\* C6: combine_file appends every matching part, in ascending order of the
\* parsed integer index (gaps allowed), not in the order of the names.
C6_NumericOrder ==
    CombineOk(lastOp) =>
        LET order == lastOp.order
        IN /\ {order[i][2] : i \in 1..Len(order)} =
                {f \in DOMAIN fs : PatternMatch(Target, f)}
           /\ \A i \in 1..Len(order) :
                order[i][1] = ParseInt(Group1(Target, order[i][2]))
           /\ \A i, j \in 1..Len(order) : i < j => order[i][1] <= order[j][1]
           /\ fs[Src] = Concat(fs, order)

\* The parts 1, 2, 9, 10 combined: part1 + part2 + part9 + part10.
C6_Witness ==
    /\ CombineOk(lastOp)
    /\ [i \in 1..Len(lastOp.order) |-> lastOp.order[i][1]] = <<1, 2, 9, 10>>
    /\ fs[Src] = <<1, 2, 19, 20>>

\* C7: split_file on a path that does not exist ends with status 1 and
\* leaves the directory as it was, whatever strategy was supplied.
C7_MissingSource ==
    [][(lastOp'.op = "split" /\ Src \notin DOMAIN fs)
       => (lastOp'.status = 1 /\ fs' = fs)]_vars

\* A split by a valid part count failed on a missing source, part files of
\* the same base name lying in the directory.
C7_Witness ==
    /\ lastOp.op = "split" /\ lastOp.status = 1 /\ ByParts(lastOp)
    /\ Src \notin DOMAIN fs
    /\ PartsOf(fs, Target) # {}

\* C8: when the directory holds no entry named <basename>.part<digits>,
\* combine_file ends with status 1 and leaves the output file as it was.
C8_NoPartsFound ==
    [][(lastOp'.op = "combine" /\ PartsOf(fs, Target) = {})
       => (lastOp'.status = 1 /\ fs' = fs)]_vars

\* C9: split_file on an existing file with neither strategy ends with status
\* 1 and creates nothing; with exactly one valid strategy it succeeds.
C9_MissingConfiguration ==
    [][(lastOp'.op = "split" /\ Src \in DOMAIN fs)
       => /\ (lastOp'.parts = None /\ lastOp'.max_size = None)
               => (lastOp'.status = 1 /\ fs' = fs)
          /\ OneStrategy(lastOp') => lastOp'.status = 0]_vars

\* A split of an existing file failed for want of a strategy.
C9_Witness ==
    /\ lastOp.op = "split" /\ lastOp.status = 1
    /\ lastOp.parts = None /\ lastOp.max_size = None
    /\ Src \in DOMAIN fs

\* C10: a successful combine_file changes the base file and nothing else:
\* every other entry, the parts among them, keeps its contents, and the
\* output is none of the parts that were read.
C10_CombineFrame ==
    [][CombineOk(lastOp')
       => /\ DOMAIN fs' = DOMAIN fs \cup {Src}
          /\ \A f \in DOMAIN fs \ {Src} : fs'[f] = fs[f]
          /\ \A i \in 1..Len(lastOp'.order) :
               /\ lastOp'.order[i][2] # Src
               /\ lastOp'.order[i][2] \in DOMAIN fs]_vars

\* A combine that read two parts and rewrote the base file from them.
C10_Witness ==
    /\ CombineOk(lastOp)
    /\ Len(lastOp.order) = 2
    /\ fs[Src] = fs[lastOp.order[1][2]] \o fs[lastOp.order[2][2]]
    /\ Len(fs[Src]) > 0

====
